---- MODULE Spec2Model ----
(***************************************************************************)
(* Model of find_nearest_isoforms.py: the pipeline of main() from the      *)
(* point where the transcripts and the global `sites` have been read       *)
(* (line 78) to the sorted result table (line 126), and the function       *)
(* per_gene_nearest_transcript_filter (lines 144-157).                     *)
(*                                                                         *)
(* The PyRanges calls of the script (extend, merge, join, apply, nearest,  *)
(* drop, setattr, df) are modelled by what they do to the frames of the    *)
(* script.  Coordinates are scaled down: positions range over 0..MaxCoord  *)
(* and the window constant is scaled with them.                            *)
(*                                                                         *)
(* Inputs.  The sites are a non-empty set of distinct regions without      *)
(* strand (the three-column BED the script writes and reads).  Every       *)
(* transcript has strand + or -, as in the annotation the script reads, so *)
(* the transcript frame is stranded and its keys are (Chromosome, Strand). *)
(* The transcript_id of a row is its number in the annotation.             *)
(*                                                                         *)
(* nearest() does not document which of two intervals at the same distance *)
(* it reports: ApplyKey takes either rule ("previous" or "next").          *)
(***************************************************************************)
EXTENDS Integers, Sequences, FiniteSets, TLC

\* Bounds of the model.
MaxCoord == 4
MaxSiteLen == 2
MaxSites == 2
MaxTranscripts == 2
\* The transcripts of a run under SpecWindow, where the window varies too.
MaxTranscriptsWindow == 1

\* WINDOW_SIZE = 100_000 in the script, scaled to the coordinate range above.
WINDOW_SIZE == 2

\* The window values a run may be configured with (SpecWindow only).
WindowSizes == {-1, 0, WINDOW_SIZE}

Chromosomes == {"chr1", "chr2"}
Strands == {"+", "-"}
GeneIds == {"g1", "g2"}
Coords == 0..MaxCoord

VARIABLES
    window,         \* the value of WINDOW_SIZE the run uses
    transcripts,    \* the frame of transcripts, in file order
    sites,          \* the global `sites`
    sites_extended, \* sites.extend(WINDOW_SIZE).merge(strand=False)
    joined,         \* transcripts_overlapping_extended_sites (rows, in key order)
    todo,           \* keys (Chromosome, Strand) that apply() has still to visit
    applied,        \* the frames the filter returned so far, one per visited key
    results,        \* `results` of line 101: the NearestResult rows
    output,         \* `results` after the rename and the sort (lines 107-126)
    pc,             \* position of main()
    err             \* the exception that ended the run, or "none"

vars == <<window, transcripts, sites, sites_extended, joined, todo, applied,
          results, output, pc, err>>

----------------------------------------------------------------------------
\* Helpers.

Max2(a, b) == IF a >= b THEN a ELSE b

ChromIndex(c) == IF c = "chr1" THEN 1 ELSE 2

StrandIndex(s) == IF s = "+" THEN 1 ELSE 2

GeneIndex(g) == IF g = "g1" THEN 1 ELSE 2

\* The overlap of two half-open intervals on one chromosome.
Overlap(a, b) ==
    /\ a.Chromosome = b.Chromosome
    /\ a.Start < b.End
    /\ b.Start < a.End

RECURSIVE SubsetsUpTo(_, _)
SubsetsUpTo(S, n) ==
    IF n = 0 THEN {{}}
    ELSE LET P == SubsetsUpTo(S, n - 1)
         IN  P \cup {p \cup {x} : p \in P, x \in S}

RECURSIVE Concat(_)
Concat(ss) == IF ss = <<>> THEN <<>> ELSE Head(ss) \o Concat(Tail(ss))

\* The order of sort_values: by (Start, End), after Chromosome when byChrom.
RowLeq(a, b, byChrom) ==
    IF byChrom /\ a.Chromosome # b.Chromosome
    THEN ChromIndex(a.Chromosome) < ChromIndex(b.Chromosome)
    ELSE a.Start < b.Start \/ (a.Start = b.Start /\ a.End <= b.End)

\* Stable insertion of row r into a sorted sequence.
RECURSIVE InsertSorted(_, _, _)
InsertSorted(r, sq, byChrom) ==
    IF sq = <<>> THEN <<r>>
    ELSE IF RowLeq(sq[1], r, byChrom)
         THEN <<sq[1]>> \o InsertSorted(r, Tail(sq), byChrom)
         ELSE <<r>> \o sq

RECURSIVE StableSort(_, _)
StableSort(sq, byChrom) ==
    IF sq = <<>> THEN <<>>
    ELSE InsertSorted(sq[Len(sq)],
                      StableSort(SubSeq(sq, 1, Len(sq) - 1), byChrom), byChrom)

\* A set of intervals as a sequence sorted by (Chromosome, Start, End).
RECURSIVE SetToSortedSeq(_)
SetToSortedSeq(S) ==
    IF S = {} THEN <<>>
    ELSE LET m == CHOOSE x \in S : \A y \in S : RowLeq(x, y, TRUE)
         IN  <<m>> \o SetToSortedSeq(S \ {m})

----------------------------------------------------------------------------
\* Inputs.

Intervals ==
    {i \in [Chromosome : Chromosomes, Start : Coords, End : Coords] : i.Start < i.End}

\* A site is a short region: at most MaxSiteLen positions.
SiteSets ==
    {S \in SubsetsUpTo({i \in Intervals : i.End - i.Start <= MaxSiteLen}, MaxSites) :
        S # {}}

BareTranscripts ==
    {t \in [Chromosome : Chromosomes, Start : Coords, End : Coords,
            Strand : Strands, gene_id : GeneIds] : t.Start < t.End}

Rank(t) ==
    ((((ChromIndex(t.Chromosome) * (MaxCoord + 1) + t.Start) * (MaxCoord + 1) + t.End) * 2
        + StrandIndex(t.Strand)) * 2) + GeneIndex(t.gene_id)

\* The bare frames of exactly n transcripts, in annotation (position) order.
RECURSIVE OrderedFrames(_)
OrderedFrames(n) ==
    IF n = 0 THEN {<<>>}
    ELSE {Append(f, t) : <<f, t>> \in
            {ft \in OrderedFrames(n - 1) \X BareTranscripts :
                ft[1] = <<>> \/ Rank(ft[1][Len(ft[1])]) <= Rank(ft[2])}}

\* Frames of at most max transcripts; the transcript_id of a row is its number
\* in the file.
TranscriptFrames(max) ==
    {[i \in 1..Len(f) |->
        [Chromosome |-> f[i].Chromosome, Start |-> f[i].Start, End |-> f[i].End,
         Strand |-> f[i].Strand, gene_id |-> f[i].gene_id, transcript_id |-> i]]
     : f \in UNION {OrderedFrames(n) : n \in 0..max}}

----------------------------------------------------------------------------
\* PyRanges.extend(ext): a new frame, every Start lowered by ext and clamped
\* at 0, every End raised by ext.
extend(S, ext) ==
    {[Chromosome |-> s.Chromosome,
      Start |-> Max2(0, s.Start - ext),
      End |-> s.End + ext] : s \in S}

\* extend() asserts that no interval of the new frame is empty or negative.
extend_ok(S, ext) == \A s \in extend(S, ext) : s.Start < s.End

\* The sweep of merge over one chromosome's intervals, sorted by (Start, End):
\* an interval that starts at or before the running end joins the cluster.
RECURSIVE find_clusters(_, _, _)
find_clusters(sq, cur, out) ==
    IF sq = <<>> THEN out \cup {cur}
    ELSE IF sq[1].Start <= cur.End
         THEN find_clusters(Tail(sq),
                            [cur EXCEPT !.End = Max2(cur.End, sq[1].End)], out)
         ELSE find_clusters(Tail(sq), sq[1], out \cup {cur})

\* PyRanges.merge(strand=False): one interval per cluster, per chromosome.
merge(S) ==
    UNION {LET sq == SetToSortedSeq({s \in S : s.Chromosome = c})
           IN  IF sq = <<>> THEN {} ELSE find_clusters(Tail(sq), sq[1], {})
           : c \in Chromosomes}

\* One row of the join: the transcript's columns and the window's Start and
\* End under the suffix _b.
JoinRow(t, w) ==
    [Chromosome |-> t.Chromosome, Start |-> t.Start, End |-> t.End,
     Strand |-> t.Strand, gene_id |-> t.gene_id, transcript_id |-> t.transcript_id,
     Start_b |-> w.Start, End_b |-> w.End]

\* The rows transcript t contributes to the join: one per window it overlaps.
RECURSIVE JoinOne(_, _)
JoinOne(t, ws) ==
    IF ws = <<>> THEN <<>>
    ELSE (IF Overlap(t, ws[1]) THEN <<JoinRow(t, ws[1])>> ELSE <<>>)
         \o JoinOne(t, Tail(ws))

\* PyRanges.join (inner, strand not compared): every overlapping
\* (transcript, window) pair, in the order of the transcripts.
RECURSIVE join(_, _)
join(ts, W) ==
    IF ts = <<>> THEN <<>>
    ELSE JoinOne(ts[1], SetToSortedSeq(W)) \o join(Tail(ts), W)

\* The keys (Chromosome, Strand) of a stranded frame, in the order apply()
\* visits them.
AllKeys == <<<<"chr1", "+">>, <<"chr1", "-">>, <<"chr2", "+">>, <<"chr2", "-">>>>

KeyOf(r) == <<r.Chromosome, r.Strand>>

KeysOf(rows) ==
    SelectSeq(AllKeys, LAMBDA k : \E i \in 1..Len(rows) : KeyOf(rows[i]) = k)

\* The frame of one key.
FrameOf(rows, k) == SelectSeq(rows, LAMBDA r : KeyOf(r) = k)

----------------------------------------------------------------------------
\* PyRanges.nearest(other, strandedness=None, overlap=False, how=None).

\* Mutant of nearest_previous_nonoverlapping: the end of the other interval is
\* not moved to its last base, so an interval that overlaps the site by one
\* base counts as previous.
nearest_previous_off_by_one(site, ocdf) ==
    LET cand == {i \in 1..Len(ocdf) : ocdf[i].End - 1 <= site.Start}
    IN  IF cand = {} THEN [idx |-> -1, dist |-> -1]
        ELSE LET i == CHOOSE i \in cand : \A j \in cand :
                          \/ ocdf[j].End < ocdf[i].End
                          \/ (ocdf[j].End = ocdf[i].End /\ j <= i)
             IN  [idx |-> i, dist |-> site.Start - (ocdf[i].End - 1)]

\* The previous interval of `other` (sorted by Start, End) for a site: the one
\* with the greatest End among those that end at or before the site's Start.
\* The distance is counted from the last base of the one interval to the first
\* base of the other.  idx = -1: there is none.
nearest_previous_nonoverlapping(site, ocdf) ==
    LET cand == {i \in 1..Len(ocdf) : ocdf[i].End - 1 < site.Start}
    IN  IF cand = {} THEN [idx |-> -1, dist |-> -1]
        ELSE LET i == CHOOSE i \in cand : \A j \in cand :
                          \/ ocdf[j].End < ocdf[i].End
                          \/ (ocdf[j].End = ocdf[i].End /\ j <= i)
             IN  [idx |-> i, dist |-> site.Start - (ocdf[i].End - 1)]

\* Mutant of nearest_next_nonoverlapping: the distance is measured from the
\* site's exclusive End instead of its last base.
nearest_next_from_end(site, ocdf) ==
    LET cand == {i \in 1..Len(ocdf) : ocdf[i].Start > site.End - 1}
    IN  IF cand = {} THEN [idx |-> -1, dist |-> -1]
        ELSE LET i == CHOOSE i \in cand : \A j \in cand :
                          \/ ocdf[j].Start > ocdf[i].Start
                          \/ (ocdf[j].Start = ocdf[i].Start /\ j >= i)
             IN  [idx |-> i, dist |-> ocdf[i].Start - site.End]

\* The next interval: the one with the least Start among those that start at
\* or after the site's End.
nearest_next_nonoverlapping(site, ocdf) ==
    LET cand == {i \in 1..Len(ocdf) : ocdf[i].Start > site.End - 1}
    IN  IF cand = {} THEN [idx |-> -1, dist |-> -1]
        ELSE LET i == CHOOSE i \in cand : \A j \in cand :
                          \/ ocdf[j].Start > ocdf[i].Start
                          \/ (ocdf[j].Start = ocdf[i].Start /\ j >= i)
             IN  [idx |-> i, dist |-> ocdf[i].Start - (site.End - 1)]

\* The nearer of the two; at equal distance the library's rule decides, which
\* the script does not fix: prefer is "previous" or "next".
nearest_nonoverlapping(p, n, prefer) ==
    IF p.idx = -1 THEN n
    ELSE IF n.idx = -1 THEN p
    ELSE IF p.dist < n.dist THEN p
    ELSE IF n.dist < p.dist THEN n
    ELSE IF prefer = "previous" THEN p ELSE n

\* The joined row of a site and its nearest interval; a column of `other` whose
\* name the site frame has too (Start, End) takes the suffix _b.
NearestRow(site, o, dist) ==
    [Chromosome |-> site.Chromosome, Start |-> site.Start, End |-> site.End,
     Start_b |-> o.Start, End_b |-> o.End, Strand |-> o.Strand,
     transcript_id |-> o.transcript_id, Distance |-> dist]

\* _nearest on one chromosome: one row per site that has a nearest interval,
\* sites in (Start, End) order; a site without one (idx -1) is dropped.
RECURSIVE nearest_rows(_, _, _)
nearest_rows(scdf, ocdf, prefer) ==
    IF scdf = <<>> THEN <<>>
    ELSE LET site == scdf[1]
             r == nearest_nonoverlapping(nearest_previous_nonoverlapping(site, ocdf),
                                         nearest_next_nonoverlapping(site, ocdf),
                                         prefer)
         IN  (IF r.idx = -1 THEN <<>>
              ELSE <<NearestRow(site, ocdf[r.idx], r.dist)>>)
             \o nearest_rows(Tail(scdf), ocdf, prefer)

\* nearest over the chromosomes of the site frame; a chromosome on which
\* either frame is empty yields nothing.
RECURSIVE nearest_chroms(_, _, _, _)
nearest_chroms(cs, S, other, prefer) ==
    IF cs = <<>> THEN <<>>
    ELSE LET scdf == SetToSortedSeq({s \in S : s.Chromosome = cs[1]})
             ocdf == StableSort(SelectSeq(other, LAMBDA o : o.Chromosome = cs[1]), FALSE)
         IN  (IF scdf = <<>> \/ ocdf = <<>> THEN <<>>
              ELSE nearest_rows(scdf, ocdf, prefer))
             \o nearest_chroms(Tail(cs), S, other, prefer)

nearest(S, other, prefer) == nearest_chroms(<<"chr1", "chr2">>, S, other, prefer)

----------------------------------------------------------------------------
\* per_gene_nearest_transcript_filter.

\* PyRanges(group).drop(drop=None): only Chromosome, Start, End, Strand stay.
drop(group) ==
    [i \in 1..Len(group) |->
        [Chromosome |-> group[i].Chromosome, Start |-> group[i].Start,
         End |-> group[i].End, Strand |-> group[i].Strand]]

\* Mutant of transcript_id_column: the column in another order than the rows.
transcript_id_column_reversed(group) ==
    [i \in 1..Len(group) |-> group[Len(group) + 1 - i].transcript_id]

\* The column per_gene_id_group['transcript_id'].
transcript_id_column(group) == [i \in 1..Len(group) |-> group[i].transcript_id]

\* setattr(frame, 'transcript_id', column): the column is set by position.
set_transcript_id(frame, column) ==
    [i \in 1..Len(frame) |->
        [Chromosome |-> frame[i].Chromosome, Start |-> frame[i].Start,
         End |-> frame[i].End, Strand |-> frame[i].Strand,
         transcript_id |-> column[i]]]

\* setattr(frame, 'gene_id', per_gene_id): one value for every row.
set_gene_id(frame, g) ==
    [i \in 1..Len(frame) |->
        [Chromosome |-> frame[i].Chromosome, Start |-> frame[i].Start,
         End |-> frame[i].End, Start_b |-> frame[i].Start_b,
         End_b |-> frame[i].End_b, Strand |-> frame[i].Strand,
         transcript_id |-> frame[i].transcript_id,
         Distance |-> frame[i].Distance, gene_id |-> g]]

\* The body of the loop (lines 148-152): the rows of one gene's group.
group_nearest(group, g, prefer) ==
    LET subset == set_transcript_id(drop(group), transcript_id_column(group))
    IN  set_gene_id(nearest(sites, subset, prefer), g)

\* Mutant of accumulate: the answer is replaced by every group's rows.
accumulate_overwrite(answer, rows) == rows

\* Lines 153-156: the group's rows are appended to a non-empty answer, and
\* replace an empty one.
accumulate(answer, rows) ==
    IF answer # <<>> THEN answer \o rows ELSE rows

\* The groups of df.groupby(by='gene_id'), in the order of the gene ids.
GeneOrder == <<"g1", "g2">>

groupby_gene_id(df) ==
    SelectSeq(GeneOrder, LAMBDA g : \E i \in 1..Len(df) : df[i].gene_id = g)

RECURSIVE filter_loop(_, _, _, _)
filter_loop(gs, df, answer, prefer) ==
    IF gs = <<>> THEN answer
    ELSE filter_loop(Tail(gs), df,
                     accumulate(answer,
                                group_nearest(SelectSeq(df, LAMBDA r : r.gene_id = gs[1]),
                                              gs[1], prefer)),
                     prefer)

per_gene_nearest_transcript_filter(df, prefer) ==
    filter_loop(groupby_gene_id(df), df, <<>>, prefer)

----------------------------------------------------------------------------
\* main(), from line 78 on.

\* The state after the transcripts and the sites have been read.
InitWith(W, max) ==
    /\ window \in W
    /\ transcripts \in TranscriptFrames(max)
    /\ sites \in SiteSets
    /\ sites_extended = {}
    /\ joined = <<>>
    /\ todo = <<>>
    /\ applied = <<>>
    /\ results = <<>>
    /\ output = <<>>
    /\ pc = "start"
    /\ err = "none"

Init == InitWith({WINDOW_SIZE}, MaxTranscripts)

InitWindow == InitWith(WindowSizes, MaxTranscriptsWindow)

\* Mutant of ExtendMerge: extend works on the frame of `sites` itself.
ExtendMergeInPlace ==
    /\ pc = "start"
    /\ sites' = extend(sites, window)
    /\ sites_extended' = merge(sites')
    /\ pc' = "extended"
    /\ UNCHANGED <<window, transcripts, joined, todo, applied, results, output, err>>

\* Line 85: sites.extend(WINDOW_SIZE).merge(strand=False).  extend and merge
\* build new frames; the assertion of extend ends the run.
ExtendMerge ==
    /\ pc = "start"
    /\ IF extend_ok(sites, window)
       THEN /\ sites_extended' = merge(extend(sites, window))
            /\ pc' = "extended"
            /\ err' = err
       ELSE /\ sites_extended' = sites_extended
            /\ pc' = "error"
            /\ err' = "AssertionError"
    /\ UNCHANGED <<window, transcripts, sites, joined, todo, applied, results, output>>

\* Line 94: transcripts.join(sites_extended, apply_strand_suffix=False).
Join ==
    /\ pc = "extended"
    /\ joined' = join(transcripts, sites_extended)
    /\ todo' = KeysOf(joined')
    /\ pc' = "joined"
    /\ UNCHANGED <<window, transcripts, sites, sites_extended, applied, results,
                   output, err>>

\* Line 101, apply(): the filter is called on the frame of the next key.
ApplyKey ==
    /\ pc = "joined"
    /\ todo # <<>>
    /\ \E prefer \in {"previous", "next"} :
          applied' = Append(applied,
                            per_gene_nearest_transcript_filter(
                                FrameOf(joined, Head(todo)), prefer))
    /\ todo' = Tail(todo)
    /\ UNCHANGED <<window, transcripts, sites, sites_extended, joined, results,
                   output, pc, err>>

\* Line 101, .df: the frames of all keys, concatenated (an empty frame adds
\* nothing; no frame at all gives a DataFrame without columns).
AsDf ==
    /\ pc = "joined"
    /\ todo = <<>>
    /\ results' = Concat(applied)
    /\ pc' = "results"
    /\ UNCHANGED <<window, transcripts, sites, sites_extended, joined, todo,
                   applied, output, err>>

\* Lines 107-114: the renamed columns.
rename(r) ==
    [Chromosome |-> r.Chromosome, Start |-> r.Start, End |-> r.End,
     Transcript_Start |-> r.Start_b, Transcript_End |-> r.End_b,
     Transcript_Strand |-> r.Strand, Transcript_ID |-> r.transcript_id,
     Transcript_Distance |-> r.Distance, Gene_ID |-> r.gene_id]

\* Lines 107-126: rename, then sort by Chromosome, Start, End.  sort_values on
\* a DataFrame without the column Chromosome raises KeyError.
RenameSort ==
    /\ pc = "results"
    /\ IF results # <<>>
       THEN /\ output' = StableSort([i \in 1..Len(results) |-> rename(results[i])], TRUE)
            /\ pc' = "done"
            /\ err' = err
       ELSE /\ output' = output
            /\ pc' = "error"
            /\ err' = "KeyError"
    /\ UNCHANGED <<window, transcripts, sites, sites_extended, joined, todo,
                   applied, results>>

Next == ExtendMerge \/ Join \/ ApplyKey \/ AsDf \/ RenameSort

Spec == Init /\ [][Next]_vars

SpecWindow == InitWindow /\ [][Next]_vars

----------------------------------------------------------------------------
\* What the claims speak about.

\* Every NearestResult row the filter has returned or line 101 has assembled.
EmittedRows ==
    UNION {{applied[k][i] : i \in 1..Len(applied[k])} : k \in 1..Len(applied)}
    \cup {results[i] : i \in 1..Len(results)}

JoinedRows == {joined[i] : i \in 1..Len(joined)}

RowSite(r) == [Chromosome |-> r.Chromosome, Start |-> r.Start, End |-> r.End]

RowNearest(r) == [Chromosome |-> r.Chromosome, Start |-> r.Start_b, End |-> r.End_b]

\* The gap between the closer edges of two intervals that do not overlap.
Gap(a, b) == Max2(b.Start - a.End, a.Start - b.End)

\* The window of one site.
WindowOf(s) ==
    [Chromosome |-> s.Chromosome, Start |-> Max2(0, s.Start - window),
     End |-> s.End + window]

Assembled == pc \in {"results", "done"}

----------------------------------------------------------------------------
\* C1. Nearest exclusivity: every emitted row has a distance of at least 1,
\* and its site and its nearest transcript do not overlap.
C1_NearestExclusivity ==
    \A r \in EmittedRows :
        /\ r.Distance >= 1
        /\ ~Overlap(RowSite(r), RowNearest(r))

\* A run in which a transcript of the row's own group overlaps the row's site
\* and another transcript was reported.
C1_Witness ==
    /\ pc = "done"
    /\ \E r \in EmittedRows : \E j \in JoinedRows :
          /\ j.gene_id = r.gene_id
          /\ j.Strand = r.Strand
          /\ Overlap(RowSite(r), j)

\* C2. Nearest minimality: no transcript of the row's gene that is in the join
\* output and does not overlap the row's site is strictly nearer to the site
\* than the reported transcript, whatever the strands of the gene's transcripts.
C2_NearestMinimality ==
    \A r \in EmittedRows : \A j \in JoinedRows :
        (/\ j.gene_id = r.gene_id
         /\ j.Chromosome = r.Chromosome
         /\ ~Overlap(RowSite(r), j))
        => Gap(RowSite(r), j) >= Gap(RowSite(r), RowNearest(r))

\* C3. Window restriction: the transcript of every emitted row overlaps the
\* window of the row's own site.
C3_WindowRestriction ==
    \A r \in EmittedRows : Overlap(RowNearest(r), WindowOf(RowSite(r)))

\* C4. Result cardinality: once the table is assembled, a site and a gene of
\* the join output have exactly one row when the gene has a joined transcript
\* on the site's chromosome that does not overlap the site, and none otherwise.
C4_ResultCardinality ==
    Assembled =>
        \A s \in sites : \A g \in {j.gene_id : j \in JoinedRows} :
            LET n == Cardinality({i \in 1..Len(results) :
                                    RowSite(results[i]) = s /\ results[i].gene_id = g})
                has == \E j \in JoinedRows :
                          /\ j.gene_id = g
                          /\ j.Chromosome = s.Chromosome
                          /\ ~Overlap(s, j)
            IN  n = (IF has THEN 1 ELSE 0)

\* C5 as stated. Distance value: the distance of a row is the gap between the
\* closer edges of its site and its transcript.
C5_DistanceIsGap ==
    \A r \in EmittedRows : r.Distance = Gap(RowSite(r), RowNearest(r))

\* C5 as amended. The distance of a row is the gap between the closer edges of
\* its site and its transcript plus one (bookended intervals are at distance 1).
C5_DistanceIsGapPlusOne ==
    \A r \in EmittedRows : r.Distance = Gap(RowSite(r), RowNearest(r)) + 1

\* A run that reports one transcript one position after its site and one
\* transcript one position before its site.
C5_Witness ==
    /\ pc = "done"
    /\ \E r \in EmittedRows : r.Start_b - r.End = 1 /\ r.Distance = 2
    /\ \E r \in EmittedRows : r.Start - r.End_b = 1 /\ r.Distance = 2

\* The groups the filter sees: a gene's joined transcripts under one key.
GroupRows(g, k) == {j \in JoinedRows : j.gene_id = g /\ KeyOf(j) = k}

\* Site s has a transcript to report in the group of gene g under key k.
HasCandidate(s, g, k) ==
    \E j \in GroupRows(g, k) : j.Chromosome = s.Chromosome /\ ~Overlap(s, j)

\* Row r is a nearest result of site s in the group of gene g under key k.
IsResultOf(r, s, g, k) ==
    /\ RowSite(r) = s
    /\ r.gene_id = g
    /\ r.Strand = k[2]
    /\ \E j \in GroupRows(g, k) :
          /\ r.Start_b = j.Start
          /\ r.End_b = j.End
          /\ r.transcript_id = j.transcript_id
          /\ ~Overlap(s, j)
    /\ \A j \in GroupRows(g, k) :
          ~Overlap(s, j) => Gap(s, j) >= Gap(s, RowNearest(r))

\* C6. Assembly without loss or deduplication: the assembled table holds one
\* row for every (site, gene group) that has a transcript to report, that row
\* is a nearest result of the group, and the table holds no other row.
C6_AssemblyComplete ==
    Assembled =>
        LET want == {t \in sites \X GeneIds \X {KeyOf(j) : j \in JoinedRows} :
                        HasCandidate(t[1], t[2], t[3])}
        IN  /\ Len(results) = Cardinality(want)
            /\ \A t \in want : \E i \in 1..Len(results) :
                  IsResultOf(results[i], t[1], t[2], t[3])

\* A run in which the filter, called once, reports for one site two
\* transcripts of two genes at the same distance.
C6_Witness ==
    /\ pc = "done"
    /\ \E i, j \in 1..Len(results) :
          /\ results[i].gene_id # results[j].gene_id
          /\ results[i].Strand = results[j].Strand
          /\ RowSite(results[i]) = RowSite(results[j])
          /\ results[i].Distance = results[j].Distance

\* No transcript overlaps a window (so also: there is no transcript).
NoOverlapInput ==
    \A i \in 1..Len(transcripts) : \A w \in merge(extend(sites, window)) :
        ~Overlap(transcripts[i], w)

\* C7. Empty input is not an error: when no transcript overlaps a window, the
\* run never reaches an error state and its tables stay empty.
C7_EmptyInputNoError ==
    NoOverlapInput => (pc # "error" /\ results = <<>> /\ output = <<>>)

\* C8. Invalid window rejected up front: with a window that is negative or
\* zero the run ends in the InvalidArgument error before a step has produced
\* output.
C8_InvalidWindowRejected ==
    window <= 0 =>
        /\ pc \in {"start", "error"}
        /\ pc = "error" => err = "InvalidArgument"
        /\ sites_extended = {} /\ joined = <<>> /\ applied = <<>> /\ results = <<>>

\* C9. Original sites are left unchanged: no step changes the site set, and
\* the site of every emitted row is one of its (unextended) intervals.
C9_SitesUnchanged ==
    [][/\ sites' = sites
       /\ \A r \in EmittedRows' : RowSite(r) \in sites]_vars

\* A run that reports a row although no site is its own window.
C9_Witness ==
    /\ pc = "done"
    /\ results # <<>>
    /\ sites \cap sites_extended = {}

\* C10. Result integrity: the transcript columns of every emitted row are
\* those of one input transcript of the gene the row is tagged with.
C10_ResultIntegrity ==
    \A r \in EmittedRows : \E i \in 1..Len(transcripts) :
        /\ transcripts[i].Chromosome = r.Chromosome
        /\ transcripts[i].Start = r.Start_b
        /\ transcripts[i].End = r.End_b
        /\ transcripts[i].Strand = r.Strand
        /\ transcripts[i].transcript_id = r.transcript_id
        /\ transcripts[i].gene_id = r.gene_id

\* A run that reports the second transcript of a group of two.
C10_Witness ==
    /\ pc = "done"
    /\ \E r \in EmittedRows :
          /\ r.transcript_id = 2
          /\ transcripts[1].gene_id = r.gene_id
          /\ KeyOf(transcripts[1]) = <<r.Chromosome, r.Strand>>
          /\ transcripts[1].Start # transcripts[2].Start

====
